---- MODULE Spec2Model ----
(***************************************************************************)
(* Model of src/app.py (MEV Bot Detector Dashboard): the ingestion loop    *)
(* fetch_recent_txs and the detection pipeline of run_dashboard.           *)
(*                                                                         *)
(* Conventions.                                                            *)
(*  - A Python value that may be None is a sequence of length at most 1:   *)
(*    <<>> is None / not yet bound, <<v>> is the value v.                  *)
(*  - A JSON hex string "0x..." is the sequence of its digits, each 0..15; *)
(*    the digit code 16 stands for a character that is no hex digit.       *)
(*  - gasPrice and value are floats in the program.  The model draws them  *)
(*    from whole numbers of Gwei / ETH, for which every float operation    *)
(*    the program performs (division by 1e9, the mean of two values, the   *)
(*    product with HIGH_GAS_MULTIPLIER) is exact; a median is kept as the  *)
(*    fraction num/den.                                                    *)
(*  - A DataFrame is [columns, rows]; a row carries its index label.       *)
(***************************************************************************)
EXTENDS Integers, Sequences, FiniteSets, TLC

VARIABLES
    pc,            \* control position in run_dashboard / fetch_recent_txs
    block_count,   \* run_dashboard: the slider value
    limit_blocks,  \* fetch_recent_txs: min(limit_blocks, MAX_BLOCKS)
    latest_block,  \* fetch_recent_txs: get_latest_block()
    i,             \* fetch_recent_txs: loop index (-1: not yet bound)
    now,           \* time.time() - start_time
    all_txs,       \* fetch_recent_txs: list of transaction dicts
    timestamps,    \* fetch_recent_txs: list of block timestamps
    log,           \* history of the loop: one entry per iteration that requested a block
    report,        \* st.success(...) of line 92: <<[blocks, txs]>>, or <<>>
    time_range,    \* st.info(...) of line 90: <<[min, max]>>, or <<>>
    txs,           \* run_dashboard: the batch DataFrame
    median_gas,    \* run_dashboard: <<[num, den]>> or <<>>
    threshold,     \* run_dashboard: <<[num, den]>> or <<>>
    high_gas_df,   \* run_dashboard: <<rows>> or <<>>
    sandwiches,    \* run_dashboard: <<records>> or <<>>
    anomalies,     \* run_dashboard: <<rows>> or <<>>
    clusters,      \* run_dashboard: <<rows>> or <<>>
    ui,            \* sections of the page rendered so far
    error          \* the exception that ended run_dashboard: <<name of the call>>, or <<>>

vars == <<pc, block_count, limit_blocks, latest_block, i, now, all_txs, timestamps,
          log, report, time_range, txs, median_gas, threshold, high_gas_df,
          sandwiches, anomalies, clusters, ui, error>>

fetchVars == <<limit_blocks, latest_block, i, now, all_txs, timestamps, log>>
detectVars == <<median_gas, threshold, high_gas_df, sandwiches, anomalies, clusters>>

----------------------------------------------------------------------------
(* Program constants *)

MAX_BLOCKS == 100
FETCH_TIMEOUT == 60
HIGH_GAS_MULTIPLIER == 3
GWEI == 1000000000
MIN_SAMPLES == 3
\* eps = 0.5 of DBSCAN, as the denominator of eps^2 = 1/4
EPS_SQ_DEN == 4

(* Bounds of the model *)

\* largest slider value (number of blocks requested)
MaxBlocks == 2
\* largest number of transactions the node reports in one block
MaxBlockTxs == 2
\* largest batch the detection specification starts from
MaxBatch == 3
\* block number get_latest_block returns when the request succeeds
ChainHead == 5
\* largest batch the sandwich specification starts from
MaxWindowBatch == 5
\* gas prices (Gwei) of the batches the detection specification starts from
GasPrices == {0, 1, 3}
\* gas prices (Gwei) of the batches the sandwich specification starts from
WindowGasPrices == {1, 2}
\* destination contracts
Contracts == {"0xX", "0xY"}

PyNone == "None"
None == <<>>
Some(v) == <<v>>

Min(a, b) == IF a < b THEN a ELSE b

Range(s) == {s[k] : k \in DOMAIN s}

RECURSIVE SeqsUpTo(_, _)
SeqsUpTo(S, n) ==
    IF n = 0 THEN {<<>>}
    ELSE LET shorter == SeqsUpTo(S, n - 1)
         IN  shorter \cup {Append(s, e) : s \in {t \in shorter : Len(t) = n - 1}, e \in S}

----------------------------------------------------------------------------
(* Hex strings: int(s, 16) and hex(n) *)

BadChar == 16

RECURSIVE HexValue(_)
HexValue(s) ==
    IF s = <<>> THEN 0
    ELSE 16 * HexValue(SubSeq(s, 1, Len(s) - 1)) + s[Len(s)]

\* int(s, 16): [ok |-> FALSE] is ValueError
PyIntHex(s) ==
    IF s = <<>> \/ \E k \in DOMAIN s : s[k] >= BadChar
    THEN [ok |-> FALSE, val |-> 0]
    ELSE [ok |-> TRUE, val |-> HexValue(s)]

RECURSIVE ToHex(_)
ToHex(n) == IF n < 16 THEN <<n>> ELSE Append(ToHex(n \div 16), n % 16)

MalformedHex == <<BadChar>>

----------------------------------------------------------------------------
(* The node behind safe_get: what eth_getBlockByNumber may answer *)

\* the block timestamp the node reports for block blk (seconds)
NodeTimestamp(blk) == blk

\* a transaction object of the node's JSON, at position idx of block blk
NodeTx(blk, idx, shape) ==
    CASE shape = "call" ->
            [hash |-> <<blk, idx>>, from |-> "0xF", to |-> "0xX",
             gasPrice |-> ToHex(GWEI), value |-> <<0>>]
      [] shape = "create" ->
            [hash |-> <<blk, idx>>, from |-> "0xF", to |-> PyNone,
             gasPrice |-> ToHex(GWEI), value |-> <<0>>]
      [] shape = "malformed" ->
            [hash |-> <<blk, idx>>, from |-> "0xF", to |-> "0xX",
             gasPrice |-> MalformedHex, value |-> <<0>>]

TxShapes == {"call", "create", "malformed"}

\* the transaction lists a block may hold, as shapes
BlockShapes == SeqsUpTo(TxShapes, MaxBlockTxs)

\* the block object of the node's JSON for block blk
NodeBlock(blk, t, n, shapes) ==
    [timestamp |-> t, number |-> n,
     transactions |-> [k \in DOMAIN shapes |-> NodeTx(blk, k, shapes[k])]]

\* seconds one request may take: it returns at once, or the budget runs out meanwhile
Delays == {0, FETCH_TIMEOUT + 1}

Tick(t, d) == Min(t + d, FETCH_TIMEOUT + 1)

----------------------------------------------------------------------------
(* fetch_recent_txs *)

\* dict.get(key): None when the key is missing
Get(d, key) == IF key \in DOMAIN d THEN d[key] ELSE PyNone

\* lines 67-76: one transaction of the block; ok = FALSE is an exception
ParseTx(tx, block) ==
    LET has == /\ {"gasPrice", "value", "hash", "from"} \subseteq DOMAIN tx
               /\ "number" \in DOMAIN block
        ok  == /\ has
               /\ PyIntHex(tx.gasPrice).ok
               /\ PyIntHex(tx.value).ok
               /\ PyIntHex(block.number).ok
    IN  IF ~ok THEN [ok |-> FALSE]
        ELSE [ok |-> TRUE,
              row |-> [tx_hash |-> tx.hash,
                       from_address |-> tx.from,
                       to_address |-> Get(tx, "to"),
                       gasPrice |-> PyIntHex(tx.gasPrice).val \div GWEI,
                       value |-> (PyIntHex(tx.value).val \div GWEI) \div GWEI,
                       blockNumber |-> PyIntHex(block.number).val]]

\* all_txs.insert(0, ...) in place of append
PrependTx(all, row) == <<row>> \o all

\* all_txs.append(...)
AppendTx(all, row) == Append(all, row)

\* lines 66-76: the loop over block['transactions'], appending to all_txs
RECURSIVE ParseTxs(_, _, _)
ParseTxs(raws, block, all) ==
    IF raws = <<>> THEN [ok |-> TRUE, all_txs |-> all]
    ELSE LET r == ParseTx(Head(raws), block)
         IN  IF ~r.ok THEN [ok |-> FALSE, all_txs |-> all]
             ELSE ParseTxs(Tail(raws), block, AppendTx(all, r.row))

\* lines 63-78: the try block; ok = FALSE is the except branch
TryBlock(block, all, tss) ==
    IF "timestamp" \notin DOMAIN block \/ ~PyIntHex(block.timestamp).ok
    THEN [ok |-> FALSE, all_txs |-> all, timestamps |-> tss]
    ELSE LET tss2 == Append(tss, PyIntHex(block.timestamp).val)
         IN  IF "transactions" \notin DOMAIN block
             THEN [ok |-> FALSE, all_txs |-> all, timestamps |-> tss2]
             ELSE LET r == ParseTxs(block.transactions, block, all)
                  IN  [ok |-> r.ok, all_txs |-> r.all_txs, timestamps |-> tss2]

\* line 45: the block requested by iteration k
BlockOf(latest, k) == latest - k

dashVars == <<block_count, report, time_range, txs, median_gas, threshold,
              high_gas_df, sandwiches, anomalies, clusters, ui, error>>

\* lines 45-49: the time budget is spent; the loop breaks with i already bound
FetchLoopTimeout ==
    /\ pc = "fetch_loop"
    /\ i + 1 < limit_blocks
    /\ now > FETCH_TIMEOUT
    /\ i' = i + 1
    /\ pc' = "fetch_report"
    /\ UNCHANGED <<limit_blocks, latest_block, now, all_txs, timestamps, log>>
    /\ UNCHANGED dashVars

\* lines 45-60: safe_get returns None, or the answer holds no result: continue
FetchLoopSkip ==
    /\ pc = "fetch_loop"
    /\ i + 1 < limit_blocks
    /\ now <= FETCH_TIMEOUT
    /\ \E d \in Delays, why \in {"request_failed", "no_result"} :
          /\ now' = Tick(now, d)
          /\ log' = Append(log, [blk |-> BlockOf(latest_block, i + 1), ok |-> FALSE,
                                 why |-> why, n |-> 0])
    /\ i' = i + 1
    /\ UNCHANGED <<pc, limit_blocks, latest_block, all_txs, timestamps>>
    /\ UNCHANGED dashVars

\* lines 45-82: the node answers with a block; parse it inside try/except
FetchLoopBlock ==
    /\ pc = "fetch_loop"
    /\ i + 1 < limit_blocks
    /\ now <= FETCH_TIMEOUT
    /\ BlockOf(latest_block, i + 1) >= 0
    /\ \E d \in Delays,
          t \in {ToHex(NodeTimestamp(BlockOf(latest_block, i + 1))), MalformedHex},
          n \in {ToHex(BlockOf(latest_block, i + 1)), MalformedHex},
          shapes \in BlockShapes :
          LET block == NodeBlock(BlockOf(latest_block, i + 1), t, n, shapes)
              r == TryBlock(block, all_txs, timestamps)
          IN  /\ now' = Tick(now, d)
              /\ all_txs' = r.all_txs
              /\ timestamps' = r.timestamps
              /\ log' = Append(log, [blk |-> BlockOf(latest_block, i + 1), ok |-> r.ok,
                                     why |-> IF r.ok THEN "parsed" ELSE "malformed",
                                     n |-> IF r.ok THEN Len(block.transactions) ELSE 0])
    /\ i' = i + 1
    /\ UNCHANGED <<pc, limit_blocks, latest_block>>
    /\ UNCHANGED dashVars

SeqMin(s) == CHOOSE m \in Range(s) : \A e \in Range(s) : m <= e
SeqMax(s) == CHOOSE m \in Range(s) : \A e \in Range(s) : m >= e

\* line 92: the number of blocks the success message states
ReportedBlocks(idx) == idx + 1

\* lines 84-92: after the loop, the time range and the totals are shown
FetchReport ==
    /\ \/ pc = "fetch_report"
       \/ pc = "fetch_loop" /\ i + 1 >= limit_blocks
    /\ time_range' = IF timestamps # <<>>
                     THEN Some([min |-> SeqMin(timestamps), max |-> SeqMax(timestamps)])
                     ELSE None
    /\ report' = Some([blocks |-> ReportedBlocks(i), txs |-> Len(all_txs)])
    /\ pc' = "fetch_return"
    /\ UNCHANGED fetchVars
    /\ UNCHANGED <<block_count, txs, ui, error>>
    /\ UNCHANGED detectVars

Columns == {"tx_hash", "from_address", "to_address", "gasPrice", "value", "blockNumber"}

\* pd.DataFrame(list of dicts): the dicts' keys as columns, a RangeIndex as labels
DataFrame(dicts) ==
    [columns |-> IF dicts = <<>> THEN {} ELSE Columns,
     rows |-> [k \in DOMAIN dicts |-> [index |-> k - 1] @@ dicts[k]]]

\* lines 93, 147: the batch is returned to run_dashboard; the locals are gone
FetchReturn ==
    /\ pc = "fetch_return"
    /\ txs' = DataFrame(all_txs)
    /\ pc' = "check_empty"
    /\ limit_blocks' = 0
    /\ latest_block' = 0
    /\ i' = -1
    /\ now' = 0
    /\ all_txs' = <<>>
    /\ timestamps' = <<>>
    /\ log' = <<>>
    /\ UNCHANGED <<block_count, report, time_range, ui, error>>
    /\ UNCHANGED detectVars

Fetch == FetchLoopTimeout \/ FetchLoopSkip \/ FetchLoopBlock \/ FetchReport \/ FetchReturn

\* lines 29-38, 146: the slider value and the answer of get_latest_block (0 when
\* the request failed).  The slider offers 10..MAX_BLOCKS blocks; the model
\* requests 1..MaxBlocks of them.
Init ==
    /\ pc = "fetch_loop"
    /\ block_count \in 1..MaxBlocks
    /\ limit_blocks = Min(block_count, MAX_BLOCKS)
    /\ latest_block \in {0, ChainHead}
    /\ i = -1
    /\ now = 0
    /\ all_txs = <<>>
    /\ timestamps = <<>>
    /\ log = <<>>
    /\ report = None
    /\ time_range = None
    /\ txs = DataFrame(<<>>)
    /\ median_gas = None
    /\ threshold = None
    /\ high_gas_df = None
    /\ sandwiches = None
    /\ anomalies = None
    /\ clusters = None
    /\ ui = <<>>
    /\ error = None

----------------------------------------------------------------------------
(* run_dashboard: the high-gas threshold *)

RECURSIVE InsertSorted(_, _)
InsertSorted(s, v) ==
    IF s = <<>> THEN <<v>>
    ELSE IF v <= Head(s) THEN <<v>> \o s
    ELSE <<Head(s)>> \o InsertSorted(Tail(s), v)

RECURSIVE SortAsc(_)
SortAsc(s) == IF s = <<>> THEN <<>> ELSE InsertSorted(SortAsc(Tail(s)), Head(s))

\* txs['gasPrice']
GasColumn(df) == [k \in DOMAIN df.rows |-> df.rows[k].gasPrice]

\* the lower middle value in place of the mean of the two middle values
MedianLowerMiddle(vals) ==
    LET n == Len(vals)
        s == SortAsc(vals)
    IN  [num |-> s[(n + 1) \div 2], den |-> 1]

\* Series.median(): the middle value, or the mean of the two middle values
Median(vals) ==
    LET n == Len(vals)
        s == SortAsc(vals)
    IN  IF n % 2 = 1 THEN [num |-> s[(n + 1) \div 2], den |-> 1]
        ELSE [num |-> s[n \div 2] + s[n \div 2 + 1], den |-> 2]

\* median_gas * HIGH_GAS_MULTIPLIER
Threshold(median) == [num |-> median.num * HIGH_GAS_MULTIPLIER, den |-> median.den]

\* txs['gasPrice'] >= threshold, for one row
AtLeast(gas, thr) == gas * thr.den >= thr.num

\* txs[mask]: the rows the mask keeps, in the frame's order
HighGasFilter(df, thr) == SelectSeq(df.rows, LAMBDA r : AtLeast(r.gasPrice, thr))

\* sort_values(by='gasPrice', ascending=False) with the default kind='quicksort':
\* the result is ordered by gasPrice descending; the sort is not stable, so rows of
\* equal gasPrice come in an order the numpy build decides
RECURSIVE DescendingOrders(_)
DescendingOrders(S) ==
    IF S = {} THEN {<<>>}
    ELSE UNION { {<<r>> \o t : t \in DescendingOrders(S \ {r})} :
                 r \in {x \in S : \A y \in S : x.gasPrice >= y.gasPrice} }

SortValuesDesc(rows) == DescendingOrders(Range(rows))

----------------------------------------------------------------------------
(* detect_sandwich *)

\* lines 99-101 without the comparison of the block numbers
SandwichCondAnyBlock(prev, curr, nxt) ==
    /\ prev.to_address = nxt.to_address
    /\ prev.gasPrice > curr.gasPrice /\ curr.gasPrice < nxt.gasPrice

\* lines 99-101
SandwichCond(prev, curr, nxt) ==
    /\ prev.to_address = nxt.to_address
    /\ prev.gasPrice > curr.gasPrice /\ curr.gasPrice < nxt.gasPrice
    /\ prev.blockNumber = curr.blockNumber /\ curr.blockNumber = nxt.blockNumber

\* lines 102-111
SandwichRec(prev, curr, nxt) ==
    [block |-> prev.blockNumber,
     victim_hash |-> curr.tx_hash,
     front_hash |-> prev.tx_hash,
     back_hash |-> nxt.tx_hash,
     to_address |-> prev.to_address,
     front_gas |-> prev.gasPrice,
     victim_gas |-> curr.gasPrice,
     back_gas |-> nxt.gasPrice]

\* lines 97-111: the loop, at 0-based index k; txs.iloc[k] is rows[k + 1]
RECURSIVE SandwichLoop(_, _, _)
SandwichLoop(rows, k, recs) ==
    IF k >= Len(rows) - 1 THEN recs
    ELSE LET prev == rows[k]
             curr == rows[k + 1]
             nxt  == rows[k + 2]
         IN  SandwichLoop(rows, k + 1,
                          IF SandwichCond(prev, curr, nxt)
                          THEN Append(recs, SandwichRec(prev, curr, nxt))
                          ELSE recs)

detect_sandwich(df) == SandwichLoop(df.rows, 1, <<>>)

----------------------------------------------------------------------------
(* detect_anomalies *)

\* IsolationForest(contamination=0.01, random_state=42).fit_predict: the offset is
\* the 1st percentile of the scores, which for fewer than 100 rows lies between the
\* lowest and the second lowest score, so at most the one lowest-scoring row is
\* labelled -1.  Which row that is depends on the forest: any row, or none.
OutlierSets(df) == {{}} \cup {{k} : k \in DOMAIN df.rows}

\* txs[labels == -1]
detect_anomalies(df, outliers) == SelectSeq(df.rows, LAMBDA r : (r.index + 1) \in outliers)

----------------------------------------------------------------------------
(* dbscan_cluster *)

Sum(f, S) ==
    LET RECURSIVE Acc(_)
        Acc(T) == IF T = {} THEN 0
                  ELSE LET e == CHOOSE x \in T : TRUE IN f[e] + Acc(T \ {e})
    IN  Acc(S)

\* n^2 times the population variance of column f over the n rows
ScaledVar(f, n) ==
    n * Sum([k \in 1..n |-> f[k] * f[k]], 1..n) - Sum(f, 1..n) * Sum(f, 1..n)

\* StandardScaler: the squared difference of two scaled values of a column with
\* n^2 * variance v, as a fraction; a column of zero variance is scaled by 1
ScaledSqDiff(d, n, v) ==
    IF v = 0 THEN [num |-> d * d, den |-> 1]
    ELSE [num |-> d * d * n * n, den |-> v]

\* DBSCAN(eps=0.5): two points are neighbours iff their distance is at most eps;
\* p and q are the squared differences of the two scaled features
WithinEps(p, q) == EPS_SQ_DEN * (p.num * q.den + q.num * p.den) <= p.den * q.den

\* the points density-reachable from S through core points, among the free ones
RECURSIVE Grow(_, _, _, _)
Grow(S, free, core, nb) ==
    LET more == {v \in free \ S : \E c \in S \cap core : v \in nb[c]}
    IN  IF more = {} THEN S ELSE Grow(S \cup more, free, core, nb)

\* DBSCAN's labelling: points in index order; an unlabelled core point starts the
\* next cluster, which takes every point reachable from it that has no label yet
RECURSIVE LabelFrom(_, _, _, _, _)
LabelFrom(k, labels, next, core, nb) ==
    IF k > Len(labels) THEN labels
    ELSE IF labels[k] # -1 \/ k \notin core
         THEN LabelFrom(k + 1, labels, next, core, nb)
         ELSE LET free == {v \in DOMAIN labels : labels[v] = -1}
                  c == Grow({k}, free, core, nb)
              IN  LabelFrom(k + 1,
                            [v \in DOMAIN labels |-> IF v \in c THEN next ELSE labels[v]],
                            next + 1, core, nb)

\* DBSCAN(eps=0.5, min_samples=3).fit_predict(StandardScaler().fit_transform(feats))
DbscanLabels(rows) ==
    LET n == Len(rows)
        gx == [k \in 1..n |-> rows[k].gasPrice]
        by == [k \in 1..n |-> rows[k].blockNumber]
        vx == ScaledVar(gx, n)
        vy == ScaledVar(by, n)
        nb == [a \in 1..n |->
                 {b \in 1..n : WithinEps(ScaledSqDiff(gx[a] - gx[b], n, vx),
                                         ScaledSqDiff(by[a] - by[b], n, vy))}]
        core == {a \in 1..n : Cardinality(nb[a]) >= MIN_SAMPLES}
    IN  LabelFrom(1, [k \in 1..n |-> -1], 0, core, nb)

\* line 126: txs['cluster'] = lbls, on the frame the caller passed
AssignCluster(df, lbls) ==
    [columns |-> df.columns \cup {"cluster"},
     rows |-> [k \in DOMAIN df.rows |->
                 [f \in (DOMAIN df.rows[k]) \cup {"cluster"} |->
                     IF f = "cluster" THEN lbls[k] ELSE df.rows[k][f]]]]

\* line 127: txs[txs['cluster'] != -1]
NonNoise(df) == SelectSeq(df.rows, LAMBDA r : r.cluster # -1)

----------------------------------------------------------------------------
(* run_dashboard, after fetch_recent_txs has returned *)

\* a test that never finds the frame empty
EmptyNever(df) == FALSE

\* DataFrame.empty
Empty(df) == df.rows = <<>> \/ df.columns = {}

\* lines 148-149
CheckEmpty ==
    /\ pc = "check_empty"
    /\ pc' = IF Empty(txs) THEN "done" ELSE "high_gas"
    /\ UNCHANGED <<block_count, report, time_range, txs, ui, error>>
    /\ UNCHANGED fetchVars
    /\ UNCHANGED detectVars

\* lines 151-153
HighGas ==
    /\ pc = "high_gas"
    /\ LET m == Median(GasColumn(txs))
           t == Threshold(m)
       IN  /\ median_gas' = Some(m)
           /\ threshold' = Some(t)
           /\ \E sorted \in SortValuesDesc(HighGasFilter(txs, t)) :
                 high_gas_df' = Some(sorted)
    /\ pc' = "detect_sandwich"
    /\ UNCHANGED <<block_count, report, time_range, txs, ui, error>>
    /\ UNCHANGED <<sandwiches, anomalies, clusters>>
    /\ UNCHANGED fetchVars

\* line 154
DetectSandwich ==
    /\ pc = "detect_sandwich"
    /\ sandwiches' = Some(detect_sandwich(txs))
    /\ pc' = "detect_anomalies"
    /\ UNCHANGED <<block_count, report, time_range, txs, ui, error>>
    /\ UNCHANGED <<median_gas, threshold, high_gas_df, anomalies, clusters>>
    /\ UNCHANGED fetchVars

\* line 155
DetectAnomalies ==
    /\ pc = "detect_anomalies"
    /\ \E outliers \in OutlierSets(txs) :
          anomalies' = Some(detect_anomalies(txs, outliers))
    /\ pc' = "render_findings"
    /\ UNCHANGED <<block_count, report, time_range, txs, ui, error>>
    /\ UNCHANGED <<median_gas, threshold, high_gas_df, sandwiches, clusters>>
    /\ UNCHANGED fetchVars

\* line 155: the scikit-learn call of lines 116-118 raises (fit_predict validates
\* its input and raises ValueError, for instance on scaled features that are not
\* finite); neither detect_anomalies nor run_dashboard has a handler, so the
\* exception ends run_dashboard
DetectAnomaliesRaises ==
    /\ pc = "detect_anomalies"
    /\ error' = Some("detect_anomalies")
    /\ pc' = "crashed"
    /\ UNCHANGED <<block_count, report, time_range, txs, ui>>
    /\ UNCHANGED detectVars
    /\ UNCHANGED fetchVars

\* lines 157-188: the summary and sections 1 to 3
RenderFindings ==
    /\ pc = "render_findings"
    /\ ui' = ui \o <<"summary", "high_gas", "sandwiches", "anomalies">>
    /\ pc' = "dbscan_cluster"
    /\ UNCHANGED <<block_count, report, time_range, txs, error>>
    /\ UNCHANGED detectVars
    /\ UNCHANGED fetchVars

\* lines 190-191
DbscanCluster ==
    /\ pc = "dbscan_cluster"
    /\ ui' = Append(ui, "clusters_header")
    /\ txs' = AssignCluster(txs, DbscanLabels(txs.rows))
    /\ clusters' = Some(NonNoise(txs'))
    /\ pc' = "render_clusters"
    /\ UNCHANGED <<block_count, report, time_range, error>>
    /\ UNCHANGED <<median_gas, threshold, high_gas_df, sandwiches, anomalies>>
    /\ UNCHANGED fetchVars

\* line 191: the scikit-learn call of lines 123-125 raises before line 126
DbscanClusterRaises ==
    /\ pc = "dbscan_cluster"
    /\ ui' = Append(ui, "clusters_header")
    /\ error' = Some("dbscan_cluster")
    /\ pc' = "crashed"
    /\ UNCHANGED <<block_count, report, time_range, txs>>
    /\ UNCHANGED detectVars
    /\ UNCHANGED fetchVars

\* lines 192-207
RenderClusters ==
    /\ pc = "render_clusters"
    /\ ui' = Append(ui, "clusters")
    /\ pc' = "done"
    /\ UNCHANGED <<block_count, report, time_range, txs, error>>
    /\ UNCHANGED detectVars
    /\ UNCHANGED fetchVars

Dashboard ==
    \/ CheckEmpty
    \/ HighGas
    \/ DetectSandwich
    \/ DetectAnomalies
    \/ DetectAnomaliesRaises
    \/ RenderFindings
    \/ DbscanCluster
    \/ DbscanClusterRaises
    \/ RenderClusters

Next == Fetch \/ Dashboard

Spec == Init /\ [][Next]_vars

----------------------------------------------------------------------------
(* The detection pipeline on its own: run_dashboard at line 148, over every batch *)
(* fetch_recent_txs can return for a range of two blocks                          *)

DetectBlocks == {ChainHead, ChainHead - 1}

\* the position of row k within its block: the rows of a block are a prefix of it
PosInBlock(blocks, k) == Cardinality({j \in 1..k : blocks[j] = blocks[k]})

\* a batch of n rows with the given gas prices, destinations and block numbers
MakeBatch(n, gas, tos, blocks) ==
    [k \in 1..n |->
        [tx_hash |-> <<blocks[k], PosInBlock(blocks, k)>>,
         from_address |-> "0xF",
         to_address |-> tos[k],
         gasPrice |-> gas[k],
         value |-> 0,
         blockNumber |-> blocks[k]]]

\* block numbers of a batch: descending over the range
Descending(b) == \A k \in 1..(Len(b) - 1) : b[k] >= b[k + 1]

InitFrom(prices, maxLen) ==
    /\ pc = "check_empty"
    /\ block_count = Cardinality(DetectBlocks)
    /\ limit_blocks = 0
    /\ latest_block = 0
    /\ i = -1
    /\ now = 0
    /\ all_txs = <<>>
    /\ timestamps = <<>>
    /\ log = <<>>
    /\ \E n \in 0..maxLen :
          \E gas \in [1..n -> prices],
             tos \in [1..n -> Contracts \cup {PyNone}],
             blocks \in [1..n -> DetectBlocks] :
             /\ Descending(blocks)
             /\ txs = DataFrame(MakeBatch(n, gas, tos, blocks))
             /\ report = Some([blocks |-> block_count, txs |-> n])
    /\ time_range = Some([min |-> NodeTimestamp(ChainHead - 1),
                          max |-> NodeTimestamp(ChainHead)])
    /\ median_gas = None
    /\ threshold = None
    /\ high_gas_df = None
    /\ sandwiches = None
    /\ anomalies = None
    /\ clusters = None
    /\ ui = <<>>
    /\ error = None

InitDetect == InitFrom(GasPrices, MaxBatch)

NextDetect == Dashboard

SpecDetect == InitDetect /\ [][NextDetect]_vars

----------------------------------------------------------------------------
(* detect_sandwich on its own: run_dashboard from line 148 to line 154, over *)
(* longer batches, so that one batch holds several windows that match        *)

InitSandwich == InitFrom(WindowGasPrices, MaxWindowBatch)

NextSandwich == CheckEmpty \/ HighGas \/ DetectSandwich

SpecSandwich == InitSandwich /\ [][NextSandwich]_vars

----------------------------------------------------------------------------
(* Properties *)

FetchPcs == {"fetch_loop", "fetch_report", "fetch_return"}

Computed(v) == v # None

\* the positions (1-based) whose window of three matches, stated on the batch
Victims(rows) ==
    {p \in 2..(Len(rows) - 1) :
        /\ rows[p - 1].to_address = rows[p + 1].to_address
        /\ rows[p - 1].blockNumber = rows[p].blockNumber
        /\ rows[p].blockNumber = rows[p + 1].blockNumber
        /\ rows[p - 1].gasPrice > rows[p].gasPrice
        /\ rows[p].gasPrice < rows[p + 1].gasPrice}

\* C1: detect_sandwich returns exactly one finding for each interior position whose
\* window has equal to_address of prev and next, one block number and a strict
\* minimum of gasPrice in the middle, in ascending order of position, naming
\* txs[i] as victim, txs[i-1] as front and txs[i+1] as back; the first and the
\* last position are never victims and a batch of fewer than 3 rows has no finding.
C1_SandwichFindingsExact ==
    Computed(sandwiches) =>
        LET rows == txs.rows
            recs == sandwiches[1]
            V == Victims(rows)
        IN  /\ Len(recs) = Cardinality(V)
            /\ \A k \in DOMAIN recs :
                  \E p \in V :
                     /\ Cardinality({q \in V : q <= p}) = k
                     /\ recs[k].victim_hash = rows[p].tx_hash
                     /\ recs[k].front_hash = rows[p - 1].tx_hash
                     /\ recs[k].back_hash = rows[p + 1].tx_hash
                     /\ recs[k].block = rows[p].blockNumber
                     /\ recs[k].victim_gas = rows[p].gasPrice
                     /\ recs[k].front_gas = rows[p - 1].gasPrice
                     /\ recs[k].back_gas = rows[p + 1].gasPrice
            /\ \A k \in DOMAIN recs :
                  /\ recs[k].victim_hash # rows[1].tx_hash
                  /\ recs[k].victim_hash # rows[Len(rows)].tx_hash
            /\ Len(rows) < 3 => recs = <<>>

\* C1 witness: a batch with two findings, and an interior position in between that
\* is not reported
C1_Witness ==
    /\ Computed(sandwiches)
    /\ Len(sandwiches[1]) = 2
    /\ Len(txs.rows) = 5
    /\ sandwiches[1][1].victim_hash = txs.rows[2].tx_hash
    /\ sandwiches[1][2].victim_hash = txs.rows[4].tx_hash

\* the k-th smallest value of vals, by counting
KthSmallest(vals, k) ==
    CHOOSE v \in Range(vals) :
        /\ Cardinality({j \in DOMAIN vals : vals[j] < v}) < k
        /\ Cardinality({j \in DOMAIN vals : vals[j] <= v}) >= k

\* twice the median: the middle value twice, or the sum of the two middle values
TwiceMedian(vals) ==
    LET n == Len(vals)
    IN  IF n % 2 = 1 THEN 2 * KthSmallest(vals, (n + 1) \div 2)
        ELSE KthSmallest(vals, n \div 2) + KthSmallest(vals, n \div 2 + 1)

\* the index labels of the rows with gasPrice >= median * HIGH_GAS_MULTIPLIER
HighGasLabels(rows) ==
    LET gas == [k \in DOMAIN rows |-> rows[k].gasPrice]
        twice == TwiceMedian(gas)
    IN  {rows[k].index : k \in {j \in DOMAIN rows :
                                  2 * gas[j] >= HIGH_GAS_MULTIPLIER * twice}}

\* C2: for every non-empty batch the high-gas set holds exactly the transactions
\* with gasPrice >= median * HIGH_GAS_MULTIPLIER, each once and with the values it
\* has in the batch, the median of an even-sized batch being the mean of the two
\* middle values.
C2_HighGasSetExact ==
    Computed(high_gas_df) =>
        LET out == high_gas_df[1]
            labels == HighGasLabels(txs.rows)
        IN  /\ {out[k].index : k \in DOMAIN out} = labels
            /\ Len(out) = Cardinality(labels)
            /\ \A k \in DOMAIN out :
                  \A f \in Columns : out[k][f] = txs.rows[out[k].index + 1][f]
            /\ 2 * median_gas[1].num = median_gas[1].den * TwiceMedian(GasColumn(txs))

\* C2 witness: a batch of which some rows, and not all, are in the high-gas set
C2_Witness ==
    /\ Computed(high_gas_df)
    /\ high_gas_df[1] # <<>>
    /\ Len(high_gas_df[1]) < Len(txs.rows)

\* C3: a failing block never aborts the run (every block of the range is requested
\* unless the time budget expires), the batch holds none of a failing block's
\* transactions and all transactions of every block that was parsed.
C3_SkipOmitsWholeBlock ==
    pc \in FetchPcs =>
        /\ pc = "fetch_return" => (Len(log) = limit_blocks \/ now > FETCH_TIMEOUT)
        /\ \A k \in DOMAIN log :
              IF log[k].ok
              THEN \A j \in 1..log[k].n :
                      \E r \in DOMAIN all_txs : all_txs[r].tx_hash = <<log[k].blk, j>>
              ELSE \A r \in DOMAIN all_txs : all_txs[r].tx_hash[1] # log[k].blk

\* C4: over a non-empty batch, when run_dashboard ends every detector has either
\* failed itself or run to completion with its result presented.
C4_DetectorsIsolated ==
    (pc \in {"done", "crashed"} /\ txs.rows # <<>>) =>
        /\ Computed(high_gas_df) /\ "high_gas" \in Range(ui)
        /\ Computed(sandwiches) /\ "sandwiches" \in Range(ui)
        /\ \/ error = Some("detect_anomalies")
           \/ Computed(anomalies) /\ "anomalies" \in Range(ui)
        /\ \/ error = Some("dbscan_cluster")
           \/ Computed(clusters) /\ "clusters" \in Range(ui)

\* C5: no detector changes the batch: across the high-gas filter, detect_sandwich,
\* detect_anomalies and dbscan_cluster the batch keeps its rows, columns and values.
C5_BatchUnchanged ==
    [][(pc \in {"high_gas", "detect_sandwich", "detect_anomalies", "dbscan_cluster"})
          => (txs' = txs)]_vars

\* the batch at hand: the list being filled, or the frame made of it
BatchRows == IF pc \in FetchPcs THEN all_txs ELSE txs.rows

\* C6: at every point of fetch_recent_txs and in the batch it returns, block numbers
\* do not increase along the batch, the transactions of one block are contiguous
\* and they come in the order in which the node reported them in that block.
C6_BatchOrder ==
    LET rows == BatchRows
    IN  /\ \A k \in 1..(Len(rows) - 1) :
              /\ rows[k].blockNumber >= rows[k + 1].blockNumber
              /\ rows[k].blockNumber = rows[k + 1].blockNumber
                    => rows[k].tx_hash[2] < rows[k + 1].tx_hash[2]
        /\ \A a, b, c \in DOMAIN rows :
              (a < b /\ b < c /\ rows[a].blockNumber = rows[c].blockNumber)
                  => rows[b].blockNumber = rows[a].blockNumber
        /\ \A k \in DOMAIN rows : rows[k].tx_hash[1] = rows[k].blockNumber

\* C6 witness: a returned batch of two blocks, one of them cut short by a malformed
\* transaction, with two transactions of one block
C6_Witness ==
    /\ pc = "fetch_return"
    /\ \E k \in DOMAIN log : ~log[k].ok
    /\ Len(all_txs) >= 3
    /\ all_txs[1].blockNumber > all_txs[Len(all_txs)].blockNumber

C8_ReportedCounts ==
    pc = "fetch_return" =>
        /\ report[1].blocks = Cardinality({k \in DOMAIN log : log[k].ok})
        /\ report[1].txs = Len(all_txs)

\* C9: the high-gas output is ordered by gasPrice descending, and rows of equal
\* gasPrice keep the relative order they have in the batch.
C9_HighGasStableDescending ==
    Computed(high_gas_df) =>
        LET out == high_gas_df[1]
        IN  \A k \in 1..(Len(out) - 1) :
               \/ out[k].gasPrice > out[k + 1].gasPrice
               \/ /\ out[k].gasPrice = out[k + 1].gasPrice
                  /\ out[k].index < out[k + 1].index

\* C10: every finding has front and back transactions with the same destination
\* contract, which is present: a window whose prev and next both have no to_address
\* is never reported.
C10_DestinationPresent ==
    Computed(sandwiches) =>
        \A k \in DOMAIN sandwiches[1] : sandwiches[1][k].to_address # PyNone

====
